---------------------------- MODULE Spec2Model ----------------------------
(***************************************************************************)
(* Model of markdown2html.py: the line-by-line converter                   *)
(* convert_markdown_to_html and the inline substitutions it applies.       *)
(*                                                                         *)
(* A Python string is modelled as a sequence of one-character strings, so  *)
(* that stripping, regular-expression matching and substitution are        *)
(* computed character by character.  The document is not fixed in          *)
(* advance: each step of the for-loop draws the next line from DocLines,   *)
(* so every document of at most MaxLines lines over DocLines is covered.   *)
(***************************************************************************)
EXTENDS Integers, Sequences, FiniteSets, TLC

\* Number of lines of the documents explored.
MaxLines == 4

\* The whitespace characters of the model (a subset of what str.rstrip()
\* and the regular-expression class \s accept).
Whitespace == {" ", "\t", "\n"}

Min(S) == CHOOSE x \in S : \A y \in S : x <= y

(***************************************************************************)
(* Inline substitutions                                                    *)
(***************************************************************************)

\* hashlib.md5(text.encode()).hexdigest(): the digests of the texts that can
\* stand between [[ and ]] in the lines of DocLines and of Texts.
md5_hash(text) ==
    CASE text = <<>> ->
          <<"d", "4", "1", "d", "8", "c", "d", "9", "8", "f", "0", "0", "b", "2", "0", "4",
            "e", "9", "8", "0", "0", "9", "9", "8", "e", "c", "f", "8", "4", "2", "7", "e">>
      [] text = <<"a">> ->
          <<"0", "c", "c", "1", "7", "5", "b", "9", "c", "0", "f", "1", "b", "6", "a", "8",
            "3", "1", "c", "3", "9", "9", "e", "2", "6", "9", "7", "7", "2", "6", "6", "1">>
      [] text = <<"c">> ->
          <<"4", "a", "8", "a", "0", "8", "f", "0", "9", "d", "3", "7", "b", "7", "3", "7",
            "9", "5", "6", "4", "9", "0", "3", "8", "4", "0", "8", "b", "5", "f", "3", "3">>
      [] text = <<"*", "*", "a", "*", "*">> ->
          <<"7", "3", "4", "4", "a", "d", "e", "c", "8", "5", "6", "f", "e", "1", "d", "0",
            "8", "2", "4", "0", "9", "5", "1", "a", "9", "c", "7", "5", "f", "6", "7", "6">>
      [] text = <<"<", "b", ">", "a", "<", "/", "b", ">">> ->
          <<"d", "0", "d", "0", "b", "3", "7", "1", "e", "0", "7", "f", "a", "a", "3", "5",
            "4", "7", "8", "d", "8", "d", "d", "e", "6", "7", "3", "a", "8", "c", "c", "5">>
      [] text = <<"a", "c">> ->
          <<"e", "2", "0", "7", "5", "4", "7", "4", "2", "9", "4", "9", "8", "3", "e", "0",
            "1", "3", "e", "e", "4", "d", "d", "2", "2", "0", "1", "c", "7", "a", "7", "3">>

\* A removal that deletes only the lower-case letter.
remove_c_lower_case_only(text) == SelectSeq(text, LAMBDA ch : ch # "c")

\* re.sub(r'[cC]', '', text)
remove_c(text) == SelectSeq(text, LAMBDA ch : ch \notin {"c", "C"})

\* The two-character opening delimiter of each of the four patterns.
OpenDelim(rule) ==
    CASE rule = "bold" -> <<"*", "*">>
      [] rule = "em"   -> <<"_", "_">>
      [] rule = "md5"  -> <<"[", "[">>
      [] rule = "rc"   -> <<"(", "(">>

\* The two-character closing delimiter of each of the four patterns.
CloseDelim(rule) ==
    CASE rule = "bold" -> <<"*", "*">>
      [] rule = "em"   -> <<"_", "_">>
      [] rule = "md5"  -> <<"]", "]">>
      [] rule = "rc"   -> <<")", ")">>

\* The replacement of a match whose group 1 is g.
Replacement(rule, g) ==
    CASE rule = "bold" -> <<"<", "b", ">">> \o g \o <<"<", "/", "b", ">">>
      [] rule = "em"   -> <<"<", "e", "m", ">">> \o g \o <<"<", "/", "e", "m", ">">>
      [] rule = "md5"  -> md5_hash(g)
      [] rule = "rc"   -> remove_c(g)

\* The two characters of text at i, i+1 are the delimiter d.
HasAt(text, i, d) ==
    /\ i >= 1
    /\ i + 1 <= Len(text)
    /\ text[i] = d[1]
    /\ text[i + 1] = d[2]

\* A match of bold that the end of the text closes when no ** does.
MatchEndBoldUnclosed(rule, text, i) ==
    LET Cands == {j \in (i + 3)..(Len(text) - 1) :
                     /\ HasAt(text, j, CloseDelim(rule))
                     /\ \A k \in (i + 2)..(j - 1) : text[k] # "\n"}
    IN  IF HasAt(text, i, OpenDelim(rule)) /\ Cands # {} THEN Min(Cands)
        ELSE IF rule = "bold" /\ HasAt(text, i, OpenDelim(rule))
                /\ i + 2 <= Len(text)
             THEN Len(text) + 1
        ELSE 0

\* A match whose group may be empty: (.*?) in place of (.+?).
MatchEndEmptyGroup(rule, text, i) ==
    LET Cands == {j \in (i + 2)..(Len(text) - 1) :
                     /\ HasAt(text, j, CloseDelim(rule))
                     /\ \A k \in (i + 2)..(j - 1) : text[k] # "\n"}
    IN  IF HasAt(text, i, OpenDelim(rule)) /\ Cands # {} THEN Min(Cands) ELSE 0

\* Where the closing delimiter of the match of  open(.+?)close  that starts
\* at i begins, or 0 when no match starts at i.  The group is non-empty, is
\* the shortest possible, and does not cross a newline ('.' excludes it).
MatchEnd(rule, text, i) ==
    LET Cands == {j \in (i + 3)..(Len(text) - 1) :
                     /\ HasAt(text, j, CloseDelim(rule))
                     /\ \A k \in (i + 2)..(j - 1) : text[k] # "\n"}
    IN  IF HasAt(text, i, OpenDelim(rule)) /\ Cands # {} THEN Min(Cands) ELSE 0

\* re.sub(pattern, replacement, text) from position i on: leftmost matches,
\* non-overlapping, the text between matches copied unchanged.
RECURSIVE re_sub(_, _, _)
re_sub(rule, text, i) ==
    IF i > Len(text) THEN <<>>
    ELSE LET j == MatchEnd(rule, text, i)
         IN  IF j = 0
             THEN <<text[i]>> \o re_sub(rule, text, i + 1)
             ELSE Replacement(rule, SubSeq(text, i + 2, j - 1))
                      \o re_sub(rule, text, j + 2)

\* Bold, then emphasis.
replace_bold_and_emphasis(text) ==
    re_sub("em", re_sub("bold", text, 1), 1)

\* Digest, then character filter.
replace_custom_syntax(text) ==
    re_sub("rc", re_sub("md5", text, 1), 1)

\* str.strip(): the text without its leading and trailing whitespace.
RECURSIVE strip_both_ends(_)
strip_both_ends(s) ==
    IF s = <<>> THEN s
    ELSE IF s[Len(s)] \in Whitespace
         THEN strip_both_ends(SubSeq(s, 1, Len(s) - 1))
    ELSE IF s[1] \in Whitespace THEN strip_both_ends(Tail(s))
    ELSE s

\* str.rstrip(): the text without its trailing whitespace.
RECURSIVE rstrip(_)
rstrip(s) ==
    IF s = <<>> THEN s
    ELSE IF s[Len(s)] \in Whitespace THEN rstrip(SubSeq(s, 1, Len(s) - 1))
    ELSE s

\* The inline pass in the order of the specification text: digest,
\* character filter, bold, emphasis.
InlineDigestFirst(line) ==
    replace_bold_and_emphasis(replace_custom_syntax(rstrip(line)))

\* The value of `stripped` the loop body works on.
Stripped(line) ==
    replace_custom_syntax(replace_bold_and_emphasis(rstrip(line)))

(***************************************************************************)
(* Line patterns                                                           *)
(***************************************************************************)

\* The number of characters ch at the start of s, from position i on.
RECURSIVE RunLength(_, _, _)
RunLength(s, i, ch) ==
    IF i <= Len(s) /\ s[i] = ch THEN 1 + RunLength(s, i + 1, ch) ELSE 0

\* The first position at or after i that does not hold whitespace.
RECURSIVE SkipSpace(_, _)
SkipSpace(s, i) ==
    IF i <= Len(s) /\ s[i] \in Whitespace THEN SkipSpace(s, i + 1) ELSE i

\* (.*) at position i: the characters up to the next newline.
RECURSIVE DotStar(_, _)
DotStar(s, i) ==
    IF i <= Len(s) /\ s[i] # "\n" THEN <<s[i]>> \o DotStar(s, i + 1) ELSE <<>>

\* re.match(r'^(#{1,6})\s+(.*)', s) succeeds.
heading_match(s) ==
    LET n == RunLength(s, 1, "#")
    IN  /\ n >= 1
        /\ n <= 6
        /\ n + 1 <= Len(s)
        /\ s[n + 1] \in Whitespace

\* heading_match.group(1), as its length.
heading_level(s) == RunLength(s, 1, "#")

\* heading_match.group(2)
heading_content(s) == DotStar(s, SkipSpace(s, RunLength(s, 1, "#") + 1))

\* re.match(r'^-\s+(.*)', s) succeeds.
ul_match(s) == Len(s) >= 2 /\ s[1] = "-" /\ s[2] \in Whitespace

\* re.match(r'^\*\s+(.*)', s) succeeds.
ol_match(s) == Len(s) >= 2 /\ s[1] = "*" /\ s[2] \in Whitespace

\* group(1) of ul_match and of ol_match.
item_content(s) == DotStar(s, SkipSpace(s, 2))

\* Which branch of the loop body a value of `stripped` takes.
Branch(s) ==
    IF s = <<>> THEN "Blank"
    ELSE IF heading_match(s) THEN "Heading"
    ELSE IF ul_match(s) THEN "UnorderedItem"
    ELSE IF ol_match(s) THEN "OrderedItem"
    ELSE "Text"

(***************************************************************************)
(* Rendering                                                               *)
(***************************************************************************)

UlOpen  == <<"<", "u", "l", ">">>
UlClose == <<"<", "/", "u", "l", ">">>
OlOpen  == <<"<", "o", "l", ">">>
OlClose == <<"<", "/", "o", "l", ">">>
POpen   == <<"<", "p", ">", "\n">>
PClose  == <<"<", "/", "p", ">">>
Indent  == <<" ", " ", " ", " ">>
Br      == <<"<", "b", "r", "/", ">">>

\* The decimal digit of a heading level.
Digit(n) == <<"0", "1", "2", "3", "4", "5", "6", "7", "8", "9">>[n + 1]

\* f"<h{level}>{content}</h{level}>"
heading_html(level, content) ==
    <<"<", "h", Digit(level), ">">> \o content
        \o <<"<", "/", "h", Digit(level), ">">>

\* f"    <li>{item}</li>"
item_html(item) ==
    Indent \o <<"<", "l", "i", ">">> \o item \o <<"<", "/", "l", "i", ">">>

\* A paragraph body with <br/> after every line, the last one included.
RECURSIVE paragraph_body_br_on_every_line(_, _)
paragraph_body_br_on_every_line(plines, idx) ==
    IF idx > Len(plines) THEN <<>>
    ELSE Indent \o plines[idx] \o Br \o <<"\n">>
             \o paragraph_body_br_on_every_line(plines, idx + 1)

\* The body of the loop over enumerate(paragraph_lines), from index idx on
\* (idx counts from 1 here, from 0 in the source): <br/> after every line
\* that is not the last.
RECURSIVE paragraph_body(_, _)
paragraph_body(plines, idx) ==
    IF idx > Len(plines) THEN <<>>
    ELSE (IF idx < Len(plines)
          THEN Indent \o plines[idx] \o Br \o <<"\n">>
          ELSE Indent \o plines[idx] \o <<"\n">>)
         \o paragraph_body(plines, idx + 1)

\* paragraph_html as appended to html_output.
paragraph_html(plines) == POpen \o paragraph_body(plines, 1) \o PClose

\* A join that ends every entry with a newline, the last one included.
RECURSIVE join_newline_after_each(_)
join_newline_after_each(out) ==
    IF out = <<>> THEN <<>>
    ELSE out[1] \o <<"\n">> \o join_newline_after_each(Tail(out))

\* '\n'.join(out)
RECURSIVE join(_)
join(out) ==
    IF out = <<>> THEN <<>>
    ELSE IF Len(out) = 1 THEN out[1]
    ELSE out[1] \o <<"\n">> \o join(Tail(out))

(***************************************************************************)
(* The documents explored                                                  *)
(***************************************************************************)

\* The lines a document is made of: one or more of every kind, lines as
\* file.readlines() returns them (ending in a newline) and without it, and
\* lines whose inline markup meets the block markers.
DocLines ==
    { <<"\n">>,
      <<"#", "#", " ", "H", "\n">>,
      <<"-", " ", "b", "\n">>,
      <<"*", " ", "c">>,
      <<"a", " ", "\n">>,
      <<"[", "[", "*", "*", "a", "*", "*", "]", "]">>,
      <<"(", "(", "c", ")", ")", "\n">>,
      <<"(", "(", "c", ")", ")", "-", " ", "a">> }

(***************************************************************************)
(* convert_markdown_to_html                                                *)
(***************************************************************************)

VARIABLES
    lines,            \* the lines the for-loop has consumed, in order
    html_output,      \* the list of output entries
    in_ul,            \* an unordered list is open
    in_ol,            \* an ordered list is open
    in_p,             \* a paragraph is open
    paragraph_lines,  \* the lines of the open paragraph
    pc,               \* "loop" inside the for-loop, "done" after the return
    result            \* the returned string

vars == <<lines, html_output, in_ul, in_ol, in_p, paragraph_lines, pc, result>>

Init ==
    /\ lines = <<>>
    /\ html_output = <<>>
    /\ in_ul = FALSE
    /\ in_ol = FALSE
    /\ in_p = FALSE
    /\ paragraph_lines = <<>>
    /\ pc = "loop"
    /\ result = <<>>

\* The output after the block  if in_p: ... html_output.append(paragraph_html)
AfterCloseP(out) ==
    IF in_p THEN Append(out, paragraph_html(paragraph_lines)) ELSE out

\* A closing of the unordered list that writes no tag.
AfterCloseUlSilent(out) == out

\* The output after the block  if in_ul: html_output.append("</ul>")
AfterCloseUl(out) == IF in_ul THEN Append(out, UlClose) ELSE out

\* The output after the block  if in_ol: html_output.append("</ol>")
AfterCloseOl(out) == IF in_ol THEN Append(out, OlClose) ELSE out

\* The loop takes the next line: the guard every branch shares.
Takes(line, branch) ==
    /\ pc = "loop"
    /\ Len(lines) < MaxLines
    /\ Branch(Stripped(line)) = branch
    /\ lines' = Append(lines, line)
    /\ UNCHANGED <<pc, result>>

\* A blank-line branch that closes the paragraph but keeps its buffer.
HandleBlankKeepsBuffer ==
    \E line \in DocLines :
        /\ Takes(line, "Blank")
        /\ html_output' = AfterCloseOl(AfterCloseUl(AfterCloseP(html_output)))
        /\ in_p' = FALSE
        /\ in_ul' = FALSE
        /\ in_ol' = FALSE
        /\ UNCHANGED paragraph_lines

\* A blank-line branch without the  if in_ol:  block.
HandleBlankKeepsOl ==
    \E line \in DocLines :
        /\ Takes(line, "Blank")
        /\ html_output' = AfterCloseUl(AfterCloseP(html_output))
        /\ paragraph_lines' = IF in_p THEN <<>> ELSE paragraph_lines
        /\ in_p' = FALSE
        /\ in_ul' = FALSE
        /\ UNCHANGED in_ol

\* if not stripped: close whatever is open, continue.
HandleBlank ==
    \E line \in DocLines :
        /\ Takes(line, "Blank")
        /\ html_output' = AfterCloseOl(AfterCloseUl(AfterCloseP(html_output)))
        /\ paragraph_lines' = IF in_p THEN <<>> ELSE paragraph_lines
        /\ in_p' = FALSE
        /\ in_ul' = FALSE
        /\ in_ol' = FALSE

\* A heading branch without the  if in_ul:  block.
HandleHeadingKeepsUl ==
    \E line \in DocLines :
        LET stripped == Stripped(line)
        IN  /\ Takes(line, "Heading")
            /\ html_output' =
                   Append(AfterCloseOl(AfterCloseP(html_output)),
                          heading_html(heading_level(stripped),
                                       heading_content(stripped)))
            /\ paragraph_lines' = IF in_p THEN <<>> ELSE paragraph_lines
            /\ in_p' = FALSE
            /\ in_ol' = FALSE
            /\ UNCHANGED in_ul

\* if heading_match: close whatever is open, emit the heading, continue.
HandleHeading ==
    \E line \in DocLines :
        LET stripped == Stripped(line)
        IN  /\ Takes(line, "Heading")
            /\ html_output' =
                   Append(AfterCloseOl(AfterCloseUl(AfterCloseP(html_output))),
                          heading_html(heading_level(stripped),
                                       heading_content(stripped)))
            /\ paragraph_lines' = IF in_p THEN <<>> ELSE paragraph_lines
            /\ in_p' = FALSE
            /\ in_ul' = FALSE
            /\ in_ol' = FALSE

\* An unordered-item branch that writes the ordered-list tag.
HandleUlWritesOl ==
    \E line \in DocLines :
        LET stripped == Stripped(line)
            closed   == AfterCloseOl(AfterCloseP(html_output))
            opened   == IF in_ul THEN closed ELSE Append(closed, OlOpen)
        IN  /\ Takes(line, "UnorderedItem")
            /\ html_output' = Append(opened, item_html(item_content(stripped)))
            /\ paragraph_lines' = IF in_p THEN <<>> ELSE paragraph_lines
            /\ in_p' = FALSE
            /\ in_ol' = FALSE
            /\ in_ul' = TRUE

\* if ul_match: close the paragraph and the ordered list, open the
\* unordered list unless it is open, emit the item, continue.
HandleUl ==
    \E line \in DocLines :
        LET stripped == Stripped(line)
            closed   == AfterCloseOl(AfterCloseP(html_output))
            opened   == IF in_ul THEN closed ELSE Append(closed, UlOpen)
        IN  /\ Takes(line, "UnorderedItem")
            /\ html_output' = Append(opened, item_html(item_content(stripped)))
            /\ paragraph_lines' = IF in_p THEN <<>> ELSE paragraph_lines
            /\ in_p' = FALSE
            /\ in_ol' = FALSE
            /\ in_ul' = TRUE

\* An ordered-item branch that opens <ol> for every item.
HandleOlReopens ==
    \E line \in DocLines :
        LET stripped == Stripped(line)
            closed   == AfterCloseUl(AfterCloseP(html_output))
            opened   == Append(closed, OlOpen)
        IN  /\ Takes(line, "OrderedItem")
            /\ html_output' = Append(opened, item_html(item_content(stripped)))
            /\ paragraph_lines' = IF in_p THEN <<>> ELSE paragraph_lines
            /\ in_p' = FALSE
            /\ in_ul' = FALSE
            /\ in_ol' = TRUE

\* if ol_match: close the paragraph and the unordered list, open the
\* ordered list unless it is open, emit the item, continue.
HandleOl ==
    \E line \in DocLines :
        LET stripped == Stripped(line)
            closed   == AfterCloseUl(AfterCloseP(html_output))
            opened   == IF in_ol THEN closed ELSE Append(closed, OlOpen)
        IN  /\ Takes(line, "OrderedItem")
            /\ html_output' = Append(opened, item_html(item_content(stripped)))
            /\ paragraph_lines' = IF in_p THEN <<>> ELSE paragraph_lines
            /\ in_p' = FALSE
            /\ in_ul' = FALSE
            /\ in_ol' = TRUE

\* A paragraph branch that opens the paragraph without closing the list.
HandleParagraphKeepsList ==
    \E line \in DocLines :
        LET stripped == Stripped(line)
        IN  /\ Takes(line, "Text")
            /\ IF ~in_p
               THEN /\ in_p' = TRUE
                    /\ paragraph_lines' = <<stripped>>
                    /\ UNCHANGED <<html_output, in_ul, in_ol>>
               ELSE /\ paragraph_lines' = Append(paragraph_lines, stripped)
                    /\ UNCHANGED <<html_output, in_ul, in_ol, in_p>>

\* A paragraph branch that empties the buffer for every line, not only for
\* the first of a paragraph.
HandleParagraphOverwrites ==
    \E line \in DocLines :
        LET stripped == Stripped(line)
        IN  /\ Takes(line, "Text")
            /\ IF ~in_p
               THEN /\ html_output' = AfterCloseOl(AfterCloseUl(html_output))
                    /\ in_ul' = FALSE
                    /\ in_ol' = FALSE
                    /\ in_p' = TRUE
                    /\ paragraph_lines' = <<stripped>>
               ELSE /\ paragraph_lines' = <<stripped>>
                    /\ UNCHANGED <<html_output, in_ul, in_ol, in_p>>

\* Otherwise: open a paragraph unless one is open (closing the open list),
\* and buffer the line.
HandleParagraph ==
    \E line \in DocLines :
        LET stripped == Stripped(line)
        IN  /\ Takes(line, "Text")
            /\ IF ~in_p
               THEN /\ html_output' = AfterCloseOl(AfterCloseUl(html_output))
                    /\ in_ul' = FALSE
                    /\ in_ol' = FALSE
                    /\ in_p' = TRUE
                    /\ paragraph_lines' = <<stripped>>
               ELSE /\ paragraph_lines' = Append(paragraph_lines, stripped)
                    /\ UNCHANGED <<html_output, in_ul, in_ol, in_p>>

\* A return that closes the lists but forgets the buffered paragraph.
EndOfInputDropsParagraph ==
    /\ pc = "loop"
    /\ pc' = "done"
    /\ html_output' = AfterCloseOl(AfterCloseUl(html_output))
    /\ result' = join(html_output') \o <<"\n">>
    /\ UNCHANGED <<lines, in_ul, in_ol, in_p, paragraph_lines>>

\* After the loop: close what is still open (the flags are not reset) and
\* return the joined output with a final newline.
EndOfInput ==
    /\ pc = "loop"
    /\ pc' = "done"
    /\ html_output' = AfterCloseOl(AfterCloseUl(AfterCloseP(html_output)))
    /\ result' = join(html_output') \o <<"\n">>
    /\ UNCHANGED <<lines, in_ul, in_ol, in_p, paragraph_lines>>

Next ==
    \/ HandleBlank
    \/ HandleHeading
    \/ HandleUl
    \/ HandleOl
    \/ HandleParagraph
    \/ EndOfInput

Spec == Init /\ [][Next]_vars

(***************************************************************************)
(* Single lines                                                            *)
(*                                                                         *)
(* The converter on documents of one line, the line drawn from a larger    *)
(* set of texts than DocLines: every text of at most MaxTokens tokens,     *)
(* lines with [[...]] spans whose digests md5_hash tabulates, and lines    *)
(* that put block markers after runs of '#', whitespace and inline markup. *)
(***************************************************************************)

\* Number of tokens of the texts explored.
MaxTokens == 4

\* Length of the longest run of '#' explored.
MaxHashes == 7

\* The delimiters of bold, emphasis and the character filter, the letters
\* the filter deletes, and a letter and a space it keeps.
InlineTokens ==
    { <<"*", "*">>, <<"_", "_">>, <<"(", "(">>, <<")", ")">>,
      <<"c">>, <<"C">>, <<"a">>, <<" ">> }

RECURSIVE Flatten(_)
Flatten(ts) == IF ts = <<>> THEN <<>> ELSE ts[1] \o Flatten(Tail(ts))

\* The texts of at most MaxTokens tokens.
TokenTexts ==
    { Flatten(ts) :
        ts \in UNION { [1..k -> InlineTokens] : k \in 0..MaxTokens } }

\* Lines with digest spans: alone, inside ((...)), inside bold and
\* emphasis, around bold, and with nothing between the brackets.
DigestTexts ==
    { <<"[", "[", "a", "]", "]">>,
      <<"[", "[", "c", "]", "]", "\n">>,
      <<"x", "[", "[", "a", "c", "]", "]", "y">>,
      <<"(", "(", "[", "[", "a", "]", "]", ")", ")">>,
      <<"(", "(", "[", "[", "c", "]", "]", ")", ")">>,
      <<"*", "*", "[", "[", "a", "]", "]", "*", "*">>,
      <<"_", "_", "[", "[", "a", "]", "]", "_", "_">>,
      <<"[", "[", "*", "*", "a", "*", "*", "]", "]">> }

\* Longer lines of the inline patterns.
PhraseTexts ==
    { <<"(", "(", "C", "a", "t", "s", " ", "a", "n", "d", " ",
        "c", "o", "g", "s", ")", ")">>,
      <<"c", "(", "(", "C", "c", "a", ")", ")", "C", "(", "(", "c", "b", ")", ")", "c">>,
      <<"a", " ", "*", "*", " ", "b">>,
      <<"*", "*", "*", "a", "*", "*">>,
      <<"*", "*", "a", "*", "*", " ", "_", "_", "b", "_", "_", "\n">>,
      <<"x", "*", "*", "*", "*", "y">>,
      <<"x", "_", "_", "_", "_", "y">>,
      <<"x", "(", "(", ")", ")", "y">>,
      <<"x", "[", "[", "]", "]", "y">>,
      <<"a", " ", "[", "[", " ", "b">>,
      <<"a", "]", "]", " ", "b">>,
      <<"]", "]", "a", "[", "[">>,
      <<"[", "[", "a", "]">>,
      <<"(", "(", "a", "]", "]">> }

\* A run of n characters ch.
Run(n, ch) == [i \in 1..n |-> ch]

\* Lines of block markers: runs of '#' and the list markers, with and
\* without whitespace before and after them, with and without content,
\* and behind inline markup that the filter empties.
MarkerTexts ==
    { lead \o marker \o sep \o body :
        lead \in { <<>>, <<" ">>, <<"\t">>, <<"(", "(", "c", ")", ")">> },
        marker \in { Run(n, "#") : n \in 0..MaxHashes }
                       \cup { <<"-">>, <<"*">>, <<"#", "(", "(", "c", ")", ")">> },
        sep \in { <<>>, <<" ">>, <<"\t">>, <<" ", " ">> },
        body \in { <<>>, <<"T">>, <<"T", " ", "\n">> } }

Texts == TokenTexts \cup DigestTexts \cup PhraseTexts \cup MarkerTexts

\* The body of the for-loop for one line, branch by branch.
LoopBody(line) ==
    LET stripped == Stripped(line)
        closed   == AfterCloseOl(AfterCloseUl(AfterCloseP(html_output)))
        emptied  == IF in_p THEN <<>> ELSE paragraph_lines
    IN  IF stripped = <<>>
        THEN /\ html_output' = closed
             /\ paragraph_lines' = emptied
             /\ in_p' = FALSE /\ in_ul' = FALSE /\ in_ol' = FALSE
        ELSE IF heading_match(stripped)
        THEN /\ html_output' =
                    Append(closed, heading_html(heading_level(stripped),
                                                heading_content(stripped)))
             /\ paragraph_lines' = emptied
             /\ in_p' = FALSE /\ in_ul' = FALSE /\ in_ol' = FALSE
        ELSE IF ul_match(stripped)
        THEN LET c == AfterCloseOl(AfterCloseP(html_output))
                 o == IF in_ul THEN c ELSE Append(c, UlOpen)
             IN  /\ html_output' = Append(o, item_html(item_content(stripped)))
                 /\ paragraph_lines' = emptied
                 /\ in_p' = FALSE /\ in_ol' = FALSE /\ in_ul' = TRUE
        ELSE IF ol_match(stripped)
        THEN LET c == AfterCloseUl(AfterCloseP(html_output))
                 o == IF in_ol THEN c ELSE Append(c, OlOpen)
             IN  /\ html_output' = Append(o, item_html(item_content(stripped)))
                 /\ paragraph_lines' = emptied
                 /\ in_p' = FALSE /\ in_ul' = FALSE /\ in_ol' = TRUE
        ELSE IF ~in_p
        THEN /\ html_output' = AfterCloseOl(AfterCloseUl(html_output))
             /\ in_ul' = FALSE /\ in_ol' = FALSE /\ in_p' = TRUE
             /\ paragraph_lines' = <<stripped>>
        ELSE /\ paragraph_lines' = Append(paragraph_lines, stripped)
             /\ UNCHANGED <<html_output, in_ul, in_ol, in_p>>

\* The loop over a document of one line of Texts.
ConvertText ==
    /\ pc = "loop"
    /\ lines = <<>>
    /\ \E line \in Texts :
           /\ lines' = <<line>>
           /\ LoopBody(line)
    /\ UNCHANGED <<pc, result>>

NextText ==
    \/ ConvertText
    \/ EndOfInput

SpecText == Init /\ [][NextText]_vars

(***************************************************************************)
(* Reading the output back                                                 *)
(***************************************************************************)

IsPrefix(p, s) == Len(p) <= Len(s) /\ SubSeq(s, 1, Len(p)) = p

IsSuffix(p, s) ==
    Len(p) <= Len(s) /\ SubSeq(s, Len(s) - Len(p) + 1, Len(s)) = p

\* s without its first n and its last m characters.
Strip(s, n, m) == SubSeq(s, n + 1, Len(s) - m)

\* The lines of a text from position i on: the pieces between newlines.
RECURSIVE SplitFrom(_, _)
SplitFrom(s, i) ==
    LET n == Min({j \in i..Len(s) : s[j] = "\n"} \cup {Len(s) + 1})
    IN  <<SubSeq(s, i, n - 1)>>
            \o (IF n > Len(s) THEN <<>> ELSE SplitFrom(s, n + 1))

\* The lines of the output written so far.
OutLines == IF html_output = <<>> THEN <<>> ELSE SplitFrom(join(html_output), 1)

\* What an output line is: a container tag, a list item, a heading, or a
\* line of a paragraph (a line between <p> and </p>).
RECURSIVE Classes(_, _, _)
Classes(ls, i, inP) ==
    IF i > Len(ls) THEN <<>>
    ELSE LET l == ls[i]
             c == IF inP /\ l # PClose THEN "pline"
                  ELSE IF l = PClose THEN "p_close"
                  ELSE IF l = <<"<", "p", ">">> THEN "p_open"
                  ELSE IF l = UlOpen THEN "ul_open"
                  ELSE IF l = UlClose THEN "ul_close"
                  ELSE IF l = OlOpen THEN "ol_open"
                  ELSE IF l = OlClose THEN "ol_close"
                  ELSE IF IsPrefix(Indent \o <<"<", "l", "i", ">">>, l) THEN "li"
                  ELSE IF IsPrefix(<<"<", "h">>, l) THEN "heading"
                  ELSE "unknown"
         IN  <<c>> \o Classes(ls, i + 1, IF c = "p_open" THEN TRUE
                                         ELSE IF c = "p_close" THEN FALSE
                                         ELSE inP)

OutClasses == Classes(OutLines, 1, FALSE)

\* The branch each consumed line took.
Kinds == [i \in 1..Len(lines) |-> Branch(Stripped(lines[i]))]

Last(s) == s[Len(s)]

\* The entries the step under way appends to html_output.
Emitted == SubSeq(html_output', Len(html_output) + 1, Len(html_output'))

\* The step under way is the loop body taking a line down the given branch.
Handles(branch) ==
    /\ lines' # lines
    /\ Branch(Stripped(Last(lines'))) = branch

(***************************************************************************)
(* C1 -- after any prefix of any sequence of lines, at most one of in_ul,  *)
(* in_ol and in_p is true.                                                 *)
(***************************************************************************)
AtMostOneOpen ==
    /\ ~(in_ul /\ in_ol)
    /\ ~(in_ul /\ in_p)
    /\ ~(in_ol /\ in_p)

\* A paragraph is open right after two lists of different kinds were.
AtMostOneOpenWitness ==
    /\ Len(lines) >= 3
    /\ Kinds[Len(lines) - 2] = "OrderedItem"
    /\ Kinds[Len(lines) - 1] = "UnorderedItem"
    /\ Kinds[Len(lines)] = "Text"
    /\ in_p

(***************************************************************************)
(* C2 -- the container tags written are balanced and ordered: no close     *)
(* before its open, no container opened while another is open, and at the  *)
(* return as many closes as opens of each of <ul>, <ol>, <p>.              *)
(***************************************************************************)
ContainerOf(c) ==
    CASE c \in {"ul_open", "ul_close"} -> "ul"
      [] c \in {"ol_open", "ol_close"} -> "ol"
      [] c \in {"p_open", "p_close"}   -> "p"

\* The container open after the tags cs[i..], given the one open before
\* them ("none" when none), or "bad" when a tag is out of order.
RECURSIVE OpenAfter(_, _, _)
OpenAfter(cs, i, open) ==
    IF i > Len(cs) THEN open
    ELSE IF cs[i] \in {"ul_open", "ol_open", "p_open"}
         THEN IF open = "none" THEN OpenAfter(cs, i + 1, ContainerOf(cs[i]))
              ELSE "bad"
    ELSE IF cs[i] \in {"ul_close", "ol_close", "p_close"}
         THEN IF open = ContainerOf(cs[i]) THEN OpenAfter(cs, i + 1, "none")
              ELSE "bad"
    ELSE OpenAfter(cs, i + 1, open)

Count(cs, c) == Cardinality({i \in 1..Len(cs) : cs[i] = c})

TagsBalanced ==
    LET cs == OutClasses
        open == OpenAfter(cs, 1, "none")
    IN  /\ \A i \in 1..Len(cs) : cs[i] # "unknown"
        /\ open # "bad"
        /\ pc = "done" =>
              /\ open = "none"
              /\ Count(cs, "ul_open") = Count(cs, "ul_close")
              /\ Count(cs, "ol_open") = Count(cs, "ol_close")
              /\ Count(cs, "p_open") = Count(cs, "p_close")

\* A returned document with all three containers in its output.
TagsBalancedWitness ==
    /\ pc = "done"
    /\ Count(OutClasses, "ul_open") >= 1
    /\ Count(OutClasses, "ol_open") >= 1
    /\ Count(OutClasses, "p_open") >= 1

(***************************************************************************)
(* C3 -- the inline rules run in the order digest, character filter, bold, *)
(* emphasis, so the digest is taken over the source characters between [[  *)
(* and ]]: what the loop emits or buffers for a line is what that order    *)
(* yields for it.                                                          *)
(***************************************************************************)
DigestOverSourceText ==
    (pc = "loop" /\ lines # <<>>) =>
        LET s == InlineDigestFirst(Last(lines))
            k == Kinds[Len(lines)]
        IN  /\ k = "Text" => Last(paragraph_lines) = s
            /\ k \in {"UnorderedItem", "OrderedItem"} =>
                   Last(html_output) = item_html(item_content(s))
            /\ k = "Heading" =>
                   Last(html_output) =
                       heading_html(heading_level(s), heading_content(s))

(***************************************************************************)
(* C4 -- the kind a line is handled as is decided by its trimmed source    *)
(* text alone: inline substitution never changes the branch a line takes;  *)
(* so a one-line document whose source text is paragraph text returns one  *)
(* paragraph of one line.                                                  *)
(***************************************************************************)
KindFromSourceText ==
    /\ \A i \in 1..Len(lines) : Kinds[i] = Branch(rstrip(lines[i]))
    /\ (pc = "done" /\ Len(lines) = 1 /\ Branch(rstrip(lines[1])) = "Text") =>
           OutClasses = <<"p_open", "pline", "p_close">>

(***************************************************************************)
(* Paragraph entries read back                                             *)
(***************************************************************************)

\* The content lines of a paragraph entry: its lines but <p> and </p>,
\* without the indent and without the <br/> of the lines before the last.
ParagraphContent(e) ==
    LET ls == SplitFrom(e, 1)
        n  == Len(ls) - 2
    IN  [k \in 1..n |-> IF k < n THEN Strip(ls[k + 1], Len(Indent), Len(Br))
                                 ELSE Strip(ls[k + 1], Len(Indent), 0)]

\* The entries new are the closing of the container open before the step:
\* the open paragraph rendered with all its lines, or </ul>, or </ol>, or
\* nothing when no container is open.
IsClosingOfOpen(new) ==
    IF in_p
    THEN /\ Len(new) = 1
         /\ IsPrefix(POpen, new[1])
         /\ IsSuffix(<<"\n">> \o PClose, new[1])
         /\ ParagraphContent(new[1]) = paragraph_lines
    ELSE IF in_ul THEN new = <<UlClose>>
    ELSE IF in_ol THEN new = <<OlClose>>
    ELSE new = <<>>

(***************************************************************************)
(* C5 -- at end of input the container still open is closed exactly once:  *)
(* the return appends one closing for the open container, nothing when     *)
(* none is open, and a buffered paragraph is rendered with all its lines.  *)
(***************************************************************************)
EndClosesOnce ==
    [][(pc = "loop" /\ pc' = "done") =>
          /\ IsPrefix(html_output, html_output')
          /\ IsClosingOfOpen(Emitted)
          /\ result' = join(html_output') \o <<"\n">>]_vars

\* A returned document whose last two lines were an open paragraph.
EndClosesOnceWitness ==
    /\ pc = "done"
    /\ in_p
    /\ Len(paragraph_lines) >= 2
    /\ ParagraphContent(Last(html_output)) = paragraph_lines

(***************************************************************************)
(* C6 -- a line handled as Blank leaves no container open, appends only    *)
(* the closing of the container that was open, and nothing when none was.  *)
(***************************************************************************)
BlankClosesAll ==
    [][Handles("Blank") =>
          /\ ~in_ul' /\ ~in_ol' /\ ~in_p'
          /\ paragraph_lines' = <<>>
          /\ IsPrefix(html_output, html_output')
          /\ IsClosingOfOpen(Emitted)]_vars

\* A blank line has just closed an ordered list.
BlankClosesAllWitness ==
    /\ pc = "loop"
    /\ Len(lines) >= 2
    /\ Kinds[Len(lines)] = "Blank"
    /\ Kinds[Len(lines) - 1] = "OrderedItem"
    /\ Last(html_output) = OlClose
    /\ ~in_ol

(***************************************************************************)
(* C7 -- a run of consecutive list items of one kind opens its container   *)
(* once, before the first item, and emits every item inside it; an item of *)
(* the other kind closes the open list and then opens the other; a line    *)
(* handled as Blank, Heading or Text closes the open list.                 *)
(***************************************************************************)

\* The list tags, the items and the starts of the other blocks, as written.
ListSkeleton ==
    SelectSeq(OutClasses,
              LAMBDA c : c \in {"ul_open", "ul_close", "ol_open", "ol_close",
                                "li", "heading", "p_open"})

\* Line i is the first of a run of lines of its kind.
RunStarts(i) == i = 1 \/ Kinds[i - 1] # Kinds[i]

\* The run line i is in has ended: a line of another kind follows it, or
\* the input has.
RunEnded(i) ==
    \/ pc = "done"
    \/ \E j \in (i + 1)..Len(lines) : Kinds[j] # Kinds[i]

\* What line i contributes to the skeleton.
SkeletonOf(i) ==
    LET k == Kinds[i]
        last == i = Len(lines) \/ Kinds[i + 1] # k
    IN  CASE k = "UnorderedItem" ->
                 (IF RunStarts(i) THEN <<"ul_open">> ELSE <<>>) \o <<"li">>
                     \o (IF last /\ RunEnded(i) THEN <<"ul_close">> ELSE <<>>)
          [] k = "OrderedItem" ->
                 (IF RunStarts(i) THEN <<"ol_open">> ELSE <<>>) \o <<"li">>
                     \o (IF last /\ RunEnded(i) THEN <<"ol_close">> ELSE <<>>)
          [] k = "Heading" -> <<"heading">>
          [] k = "Text" ->
                 IF RunStarts(i) /\ RunEnded(i) THEN <<"p_open">> ELSE <<>>
          [] k = "Blank" -> <<>>

RECURSIVE SkeletonFrom(_)
SkeletonFrom(i) ==
    IF i > Len(lines) THEN <<>> ELSE SkeletonOf(i) \o SkeletonFrom(i + 1)

ListRuns == ListSkeleton = SkeletonFrom(1)

\* Two unordered items in one list, then an ordered item in its own list.
ListRunsWitness ==
    /\ Len(lines) >= 3
    /\ Kinds[1] = "UnorderedItem"
    /\ Kinds[2] = "UnorderedItem"
    /\ Kinds[3] = "OrderedItem"
    /\ SubSeq(OutClasses, 1, 6)
           = <<"ul_open", "li", "li", "ul_close", "ol_open", "li">>

(***************************************************************************)
(* C8 -- a line handled as Heading first appends the closing of the open   *)
(* container, then the heading as one complete <hN>...</hN> element, and   *)
(* leaves no container open; a heading, a list item, a blank line and a    *)
(* paragraph line in sequence return four closed elements (heading, list,  *)
(* item, paragraph), each closed before the next opens.                    *)
(***************************************************************************)
IsHeadingElement(e) ==
    /\ \E n \in 1..6 :
           /\ IsPrefix(<<"<", "h", Digit(n), ">">>, e)
           /\ IsSuffix(<<"<", "/", "h", Digit(n), ">">>, e)
    /\ Len(e) >= 9
    /\ \A i \in 1..Len(e) : e[i] # "\n"

HeadingStep ==
    Handles("Heading") =>
        /\ ~in_ul' /\ ~in_ol' /\ ~in_p'
        /\ IsPrefix(html_output, html_output')
        /\ Emitted # <<>>
        /\ IsClosingOfOpen(SubSeq(Emitted, 1, Len(Emitted) - 1))
        /\ IsHeadingElement(Last(Emitted))

MixedScenario ==
    (/\ pc = "done"
     /\ Len(lines) = 4
     /\ Kinds[1] = "Heading"
     /\ Kinds[2] \in {"UnorderedItem", "OrderedItem"}
     /\ Kinds[3] = "Blank"
     /\ Kinds[4] = "Text") =>
        OutClasses \in
            { <<"heading", "ul_open", "li", "ul_close",
                "p_open", "pline", "p_close">>,
              <<"heading", "ol_open", "li", "ol_close",
                "p_open", "pline", "p_close">> }

HeadingClosesThenEmits == [][HeadingStep]_vars /\ []MixedScenario

\* A heading has just closed a two-line paragraph.
HeadingClosesThenEmitsWitness ==
    /\ Len(lines) >= 3
    /\ Kinds[Len(lines)] = "Heading"
    /\ Kinds[Len(lines) - 1] = "Text"
    /\ Kinds[Len(lines) - 2] = "Text"
    /\ Len(html_output) >= 2
    /\ IsPrefix(POpen, html_output[Len(html_output) - 1])
    /\ IsHeadingElement(Last(html_output))

(***************************************************************************)
(* C9 -- every paragraph is written as <p>, its lines in order each        *)
(* indented by four spaces, <br/> after every line but the last, </p>: n   *)
(* lines carry n-1 <br/>, whichever event closes the paragraph.            *)
(***************************************************************************)
ParagraphEntries == SelectSeq(html_output, LAMBDA e : IsPrefix(POpen, e))

BrCount(e) ==
    Cardinality({i \in 1..(Len(e) - Len(Br) + 1) :
                    SubSeq(e, i, i + Len(Br) - 1) = Br})

WellFormedParagraph(e) ==
    LET ls == SplitFrom(e, 1)
        n  == Len(ls) - 2
    IN  /\ n >= 1
        /\ ls[1] = <<"<", "p", ">">>
        /\ ls[Len(ls)] = PClose
        /\ \A k \in 1..n :
               /\ IsPrefix(Indent, ls[k + 1])
               /\ IsSuffix(Br, ls[k + 1]) <=> k < n
        /\ BrCount(e) = n - 1

\* The paragraphs closed so far: the maximal runs of lines handled as Text
\* that a later line or the end of input has ended, cur being the run
\* under way.
RECURSIVE ClosedRuns(_, _)
ClosedRuns(i, cur) ==
    IF i > Len(lines)
    THEN IF cur # <<>> /\ pc = "done" THEN <<cur>> ELSE <<>>
    ELSE IF Kinds[i] = "Text"
         THEN ClosedRuns(i + 1, Append(cur, Stripped(lines[i])))
    ELSE (IF cur # <<>> THEN <<cur>> ELSE <<>>) \o ClosedRuns(i + 1, <<>>)

ParagraphRendering ==
    LET ps   == ParagraphEntries
        runs == ClosedRuns(1, <<>>)
    IN  /\ Len(ps) = Len(runs)
        /\ \A k \in 1..Len(ps) :
               /\ WellFormedParagraph(ps[k])
               /\ ParagraphContent(ps[k]) = runs[k]

\* A paragraph of three lines, closed by a list item.
ParagraphRenderingWitness ==
    /\ Len(lines) = 4
    /\ Kinds[4] = "UnorderedItem"
    /\ Len(ParagraphEntries) = 1
    /\ Len(ParagraphContent(ParagraphEntries[1])) = 3
    /\ BrCount(ParagraphEntries[1]) = 2

(***************************************************************************)
(* C10 -- the content of every line not handled as Blank is in the output  *)
(* exactly once and in input order, the lines of the open paragraph being  *)
(* buffered until it is closed.                                            *)
(***************************************************************************)

\* The content each output line carries, in output order.
RECURSIVE ContentsFrom(_, _, _)
ContentsFrom(ls, cs, i) ==
    IF i > Len(ls) THEN <<>>
    ELSE (CASE cs[i] = "li" -> <<Strip(ls[i], 8, 5)>>
            [] cs[i] = "heading" -> <<Strip(ls[i], 4, 5)>>
            [] cs[i] = "pline" ->
                   IF cs[i + 1] = "p_close"
                   THEN <<Strip(ls[i], Len(Indent), 0)>>
                   ELSE <<Strip(ls[i], Len(Indent), Len(Br))>>
            [] OTHER -> <<>>)
         \o ContentsFrom(ls, cs, i + 1)

\* The content of a consumed line, as its branch takes it.
ContentOf(line) ==
    LET s == Stripped(line)
        k == Branch(s)
    IN  CASE k = "Heading" -> <<heading_content(s)>>
          [] k \in {"UnorderedItem", "OrderedItem"} -> <<item_content(s)>>
          [] k = "Text" -> <<s>>
          [] k = "Blank" -> <<>>

RECURSIVE InputContentsFrom(_)
InputContentsFrom(i) ==
    IF i > Len(lines) THEN <<>>
    ELSE ContentOf(lines[i]) \o InputContentsFrom(i + 1)

ContentPreserved ==
    LET ls == OutLines
        written == ContentsFrom(ls, Classes(ls, 1, FALSE), 1)
        buffered == IF pc = "loop" /\ in_p THEN paragraph_lines ELSE <<>>
    IN  written \o buffered = InputContentsFrom(1)

\* Four lines with four different contents, two of them written from the
\* paragraph buffer at the return.
ContentPreservedWitness ==
    /\ pc = "done"
    /\ Len(lines) = 4
    /\ Kinds[3] = "Text"
    /\ Kinds[4] = "Text"
    /\ Kinds[1] # "Blank"
    /\ Kinds[2] # "Blank"
    /\ Cardinality({InputContentsFrom(1)[i] : i \in 1..4}) = 4

(***************************************************************************)
(* C11 -- a list-item line that starts with "- " is written inside <ul>,   *)
(* one that starts with "* " inside <ol>, and no <li> is written outside   *)
(* an open list container of its own kind.                                 *)
(***************************************************************************)

\* The container open around each <li> of the output, in output order.
RECURSIVE ItemContainersFrom(_, _, _)
ItemContainersFrom(cs, i, open) ==
    IF i > Len(cs) THEN <<>>
    ELSE IF cs[i] = "li"
         THEN <<open>> \o ItemContainersFrom(cs, i + 1, open)
    ELSE IF cs[i] = "ul_open" THEN ItemContainersFrom(cs, i + 1, "ul")
    ELSE IF cs[i] = "ol_open" THEN ItemContainersFrom(cs, i + 1, "ol")
    ELSE IF cs[i] \in {"ul_close", "ol_close"}
         THEN ItemContainersFrom(cs, i + 1, "none")
    ELSE ItemContainersFrom(cs, i + 1, open)

\* The consumed lines handled as list items, in input order.
ItemLines ==
    SelectSeq(lines, LAMBDA l : Branch(Stripped(l))
                                    \in {"UnorderedItem", "OrderedItem"})

ItemsInOwnContainer ==
    LET cont  == ItemContainersFrom(OutClasses, 1, "none")
        items == ItemLines
    IN  /\ Len(cont) = Len(items)
        /\ \A k \in 1..Len(items) :
               /\ IsPrefix(<<"-", " ">>, items[k]) => cont[k] = "ul"
               /\ IsPrefix(<<"*", " ">>, items[k]) => cont[k] = "ol"
               /\ cont[k] = IF Branch(Stripped(items[k])) = "UnorderedItem"
                            THEN "ul" ELSE "ol"

\* A "- " item and a "* " item, each written in a list of its kind.
ItemsInOwnContainerWitness ==
    /\ Len(ItemLines) >= 2
    /\ IsPrefix(<<"-", " ">>, ItemLines[1])
    /\ IsPrefix(<<"*", " ">>, ItemLines[2])
    /\ ItemContainersFrom(OutClasses, 1, "none")[1] = "ul"
    /\ ItemContainersFrom(OutClasses, 1, "none")[2] = "ol"

(***************************************************************************)
(* C14 -- the returned string ends with exactly one newline; for the empty *)
(* sequence and for a sequence of blank lines only it is one newline.      *)
(***************************************************************************)
OneTrailingNewline ==
    pc = "done" =>
        /\ Len(result) >= 1
        /\ Last(result) = "\n"
        /\ Len(result) >= 2 => result[Len(result) - 1] # "\n"
        /\ (\A i \in 1..Len(lines) : rstrip(lines[i]) = <<>>) =>
               result = <<"\n">>

\* A returned document that ends with a paragraph, after a blank line.
OneTrailingNewlineWitness ==
    /\ pc = "done"
    /\ Len(lines) >= 2
    /\ rstrip(lines[1]) = <<>>
    /\ in_p
    /\ IsSuffix(PClose \o <<"\n">>, result)

(***************************************************************************)
(* C17 -- after any prefix of any sequence of lines, in_p is true exactly  *)
(* when paragraph_lines is non-empty: every <p> block written has at least *)
(* one content line, and no line stays buffered once the paragraph is      *)
(* closed.                                                                 *)
(***************************************************************************)
OpenIffBuffered ==
    /\ in_p <=> paragraph_lines # <<>>
    /\ \A k \in 1..Len(ParagraphEntries) :
           Len(ParagraphContent(ParagraphEntries[k])) >= 1

\* A paragraph of two lines has been closed and written, nothing is
\* buffered.
OpenIffBufferedWitness ==
    /\ pc = "loop"
    /\ ~in_p
    /\ paragraph_lines = <<>>
    /\ Len(ParagraphEntries) = 1
    /\ Len(ParagraphContent(ParagraphEntries[1])) = 2

(***************************************************************************)
(* C12 -- character-filter substitution replaces every ((...)) span by its *)
(* content without 'c' and 'C', the other characters kept in order, and    *)
(* leaves every character outside the spans unchanged.                     *)
(***************************************************************************)

\* s without its letters c and C.
RECURSIVE WithoutC(_)
WithoutC(s) ==
    IF s = <<>> THEN <<>>
    ELSE IF s[1] = "c" \/ s[1] = "C" THEN WithoutC(Tail(s))
    ELSE <<s[1]>> \o WithoutC(Tail(s))

\* s with its ((...)) spans replaced as the claim says: up to the first
\* (( that a )) follows with something between them, s is kept; the span
\* gives its content without c and C; the rest of s is treated likewise.
RECURSIVE SpansFiltered(_)
SpansFiltered(s) ==
    LET closes(i) == {j \in (i + 3)..Len(s) : HasAt(s, j, <<")", ")">>)}
        opens == {i \in 1..Len(s) :
                     HasAt(s, i, <<"(", "(">>) /\ closes(i) # {}}
    IN  IF opens = {} THEN s
        ELSE LET i == Min(opens)
                 j == Min(closes(i))
             IN  SubSeq(s, 1, i - 1)
                     \o WithoutC(SubSeq(s, i + 2, j - 1))
                     \o SpansFiltered(SubSeq(s, j + 2, Len(s)))

\* The text the character-filter rule receives for a line.
FilterInput(line) ==
    re_sub("md5", replace_bold_and_emphasis(rstrip(line)), 1)

CharacterFilter ==
    (pc = "loop" /\ lines # <<>>) =>
        LET expected == SpansFiltered(FilterInput(lines[1]))
        IN  /\ Kinds[1] = Branch(expected)
            /\ Kinds[1] = "Text" => paragraph_lines = <<expected>>
            /\ Kinds[1] = "Blank" => expected = <<>> /\ html_output = <<>>

\* Two spans with c and C inside, c and C outside them.
CharacterFilterWitness ==
    /\ pc = "loop"
    /\ lines = << <<"c", "(", "(", "C", "c", "a", ")", ")", "C",
                    "(", "(", "c", "b", ")", ")", "c">> >>
    /\ paragraph_lines = << <<"c", "a", "C", "b", "c">> >>

(***************************************************************************)
(* C13 -- a text with no complete opening-and-closing pair of any of the   *)
(* four delimiters (none at all, or lone unmatched ones) comes out of the  *)
(* inline substitutions unchanged, and no <b> or <em> tag is written.      *)
(***************************************************************************)

\* sub occurs in s.
Contains(s, sub) ==
    \E i \in 1..(Len(s) - Len(sub) + 1) : SubSeq(s, i, i + Len(sub) - 1) = sub

\* No opening delimiter of the rule has a closing one after it.
NoCompletePair(rule, s) ==
    ~\E i \in 1..Len(s) : \E j \in (i + 2)..Len(s) :
        HasAt(s, i, OpenDelim(rule)) /\ HasAt(s, j, CloseDelim(rule))

Unpaired(s) == \A rule \in {"bold", "em", "md5", "rc"} : NoCompletePair(rule, s)

UnpairedUnchanged ==
    (lines # <<>> /\ Unpaired(rstrip(lines[1]))) =>
        LET s == rstrip(lines[1])
        IN  /\ Kinds[1] = Branch(s)
            /\ (pc = "loop" /\ Kinds[1] = "Text") => paragraph_lines = <<s>>
            /\ pc = "done" =>
                   /\ ~Contains(result, <<"<", "b", ">">>)
                   /\ ~Contains(result, <<"<", "e", "m", ">">>)
                   /\ Kinds[1] = "Text" =>
                          result = POpen \o Indent \o s \o <<"\n">>
                                       \o PClose \o <<"\n">>

\* The line "a ** b", returned as it is.
UnpairedUnchangedWitness ==
    /\ pc = "done"
    /\ lines = << <<"a", " ", "*", "*", " ", "b">> >>
    /\ Contains(result, <<"a", " ", "*", "*", " ", "b">>)

(***************************************************************************)
(* C15 -- a line is handled as a heading exactly when its text starts with *)
(* a run of one to six '#' followed by whitespace, the level of <hN> being *)
(* the length of the run; a line that starts with seven or more '#', or    *)
(* with '#' not followed by whitespace, is handled as paragraph text.      *)
(***************************************************************************)
HeadingIffHashRun ==
    lines # <<>> =>
        LET t == rstrip(lines[1])
            n == RunLength(t, 1, "#")
            marked == n >= 1 /\ n <= 6 /\ n + 1 <= Len(t)
                          /\ t[n + 1] \in Whitespace
        IN  /\ Kinds[1] = "Heading" <=> marked
            /\ (pc = "loop" /\ marked) =>
                   /\ html_output # <<>>
                   /\ IsPrefix(<<"<", "h", Digit(n), ">">>, html_output[1])
            /\ (n >= 1 /\ ~marked) => Kinds[1] = "Text"

(***************************************************************************)
(* C16 -- the digest written for a [[x]] span is opaque to the rules that  *)
(* run after it: the complete digest is in the returned text, also when    *)
(* the span lies inside ((...)) and the digest has the hex digit 'c'.      *)
(***************************************************************************)
DigestOpaque ==
    (pc = "done" /\ lines # <<>>) =>
        LET s == replace_bold_and_emphasis(rstrip(lines[1]))
            closes(i) == {j \in (i + 3)..Len(s) : HasAt(s, j, <<"]", "]">>)}
            opens == {i \in 1..Len(s) :
                         HasAt(s, i, <<"[", "[">>) /\ closes(i) # {}}
        IN  opens # {} =>
                LET i == Min(opens)
                    j == Min(closes(i))
                IN  Contains(result, md5_hash(SubSeq(s, i + 2, j - 1)))

(***************************************************************************)
(* C18 -- only trailing whitespace is removed before a line is classified: *)
(* a line with whitespace before '#', "- " or "* " is handled as paragraph *)
(* text, and the paragraph line written keeps that whitespace.             *)
(***************************************************************************)

\* The line has whitespace, then '#', "- " or "* ".
IndentedMarker(t) ==
    LET k == SkipSpace(t, 1)
        rest == SubSeq(t, k, Len(t))
    IN  /\ k > 1
        /\ k <= Len(t)
        /\ \/ t[k] = "#"
           \/ IsPrefix(<<"-", " ">>, rest)
           \/ IsPrefix(<<"*", " ">>, rest)

LeadingWhitespaceKept ==
    (lines # <<>> /\ IndentedMarker(lines[1])) =>
        LET t == lines[1]
            k == SkipSpace(t, 1)
        IN  /\ Kinds[1] = "Text"
            /\ in_p
            /\ Len(paragraph_lines) = 1
            /\ IsPrefix(SubSeq(t, 1, k), paragraph_lines[1])
            /\ pc = "done" =>
                   IsPrefix(POpen \o Indent \o SubSeq(t, 1, k), result)

\* The line " # T", returned as a paragraph line with its leading space.
LeadingWhitespaceKeptWitness ==
    /\ pc = "done"
    /\ lines = << <<" ", "#", " ", "T">> >>
    /\ result = POpen \o Indent \o <<" ", "#", " ", "T", "\n">>
                    \o PClose \o <<"\n">>

(***************************************************************************)
(* C19 -- a delimiter pair with nothing between its opening and closing    *)
(* delimiter is not substituted: a text whose only delimiter characters    *)
(* are one of [[]], (()), **** and ____ is written unchanged.              *)
(***************************************************************************)
DelimiterChars == {"*", "_", "[", "]", "(", ")"}

EmptyPairs ==
    { <<"[", "[", "]", "]">>, <<"(", "(", ")", ")">>,
      <<"*", "*", "*", "*">>, <<"_", "_", "_", "_">> }

\* s is one empty pair between two texts without delimiter characters.
SingleEmptyPair(s) ==
    \E i \in 1..(Len(s) - 3) :
        /\ SubSeq(s, i, i + 3) \in EmptyPairs
        /\ \A k \in 1..Len(s) : (k < i \/ k > i + 3) => s[k] \notin DelimiterChars

EmptyPairKept ==
    (lines # <<>> /\ SingleEmptyPair(rstrip(lines[1]))) =>
        LET s == rstrip(lines[1])
        IN  /\ Kinds[1] = "Text"
            /\ paragraph_lines = <<s>>
            /\ pc = "done" =>
                   result = POpen \o Indent \o s \o <<"\n">>
                                \o PClose \o <<"\n">>

\* The line "x[[]]y", returned as it is.
EmptyPairKeptWitness ==
    /\ pc = "done"
    /\ lines = << <<"x", "[", "[", "]", "]", "y">> >>
    /\ Contains(result, <<"x", "[", "[", "]", "]", "y">>)

=============================================================================
